---- MODULE Spec2Model ----
(***************************************************************************)
(* Pump-status decision engine of the Smart Irrigation API (src/main.py).  *)
(*                                                                         *)
(* State: the pump_control table (at most one row, id = 1), the            *)
(* pump_schedules table (rows in id order) and the UTC clock.  Every       *)
(* request handler is one action; `call` records the last request, the     *)
(* rows it read and what it answered; `intent` is a history variable: the  *)
(* mode and end time of the last PAUSE not yet followed by a mode or       *)
(* schedule request.  Timestamps are whole seconds; a time string          *)
(* "HH:MM:SS" is the sequence of its ':'-separated integer fields, and the *)
(* store hands back the time strings a schedule request carried.           *)
(* The sensor_data log is write-only for the decision engine and is left   *)
(* out.  `inflight` is used by SpecConc only, where the handlers run one   *)
(* SQL statement per step in two server processes.                         *)
(***************************************************************************)
EXTENDS Integers, Sequences, FiniteSets, TLC

VARIABLES pump_control, pump_schedules, utcnow, call, intent, inflight

vars == <<pump_control, pump_schedules, utcnow, call, intent, inflight>>

----------------------------------------------------------------------------
(* Bounds of the model *)

\* the clock advances at most this many times
MaxTick == 3

\* add_schedule is not taken once pump_schedules holds this many rows
MaxRows == 2

----------------------------------------------------------------------------
(* Constants of the program *)

TIMEZONE_OFFSET == 7

DEFAULT_PAUSE_MINUTES == 30

SecondsPerMinute == 60

SecondsPerHour == 60 * SecondsPerMinute

SecondsPerDay == 24 * SecondsPerHour

\* SQL NULL / Python None: the empty option; a present value v is <<v>>
NULL == <<>>

\* one step of the clock: six hours
TickSeconds == 6 * SecondsPerHour

----------------------------------------------------------------------------
(* Time helpers *)

\* get_local_time(): utcnow() + timedelta(hours = TIMEZONE_OFFSET)
get_local_time == utcnow + TIMEZONE_OFFSET * SecondsPerHour

\* datetime.time(): the time-of-day <<hour, minute, second>> of a timestamp
TimeOfDay(dt) ==
    LET sod == dt % SecondsPerDay
    IN  <<sod \div SecondsPerHour,
          (sod % SecondsPerHour) \div SecondsPerMinute,
          sod % SecondsPerMinute>>

\* the test of parse_time's try block: two or three integer fields that
\* datetime.time(h, m, s) accepts; anything else raises and is caught
ParseSucceeds(time_str) ==
    /\ Len(time_str) >= 2
    /\ time_str[1] \in 0..23
    /\ time_str[2] \in 0..59
    /\ (Len(time_str) > 2 => time_str[3] \in 0..59)

\* parse_time: the parsed time, or time(0, 0, 0) when parsing raised
parse_time(time_str) ==
    IF ParseSucceeds(time_str)
    THEN <<time_str[1], time_str[2], IF Len(time_str) > 2 THEN time_str[3] ELSE 0>>
    ELSE <<0, 0, 0>>

\* datetime.time ordering: lexicographic on (hour, minute, second)
TimeLeq(a, b) ==
    \/ a[1] < b[1]
    \/ a[1] = b[1] /\ a[2] < b[2]
    \/ a[1] = b[1] /\ a[2] = b[2] /\ a[3] <= b[3]

\* is_in_schedule without the overnight branch
IsInScheduleNoWrap(now_dt, on_str, off_str) ==
    LET on_t  == parse_time(on_str)
        off_t == parse_time(off_str)
        now_t == TimeOfDay(now_dt)
    IN  TimeLeq(on_t, now_t) /\ TimeLeq(now_t, off_t)

\* is_in_schedule with an exclusive upper bound on the same-day window
IsInScheduleExclusiveOff(now_dt, on_str, off_str) ==
    LET on_t  == parse_time(on_str)
        off_t == parse_time(off_str)
        now_t == TimeOfDay(now_dt)
    IN  IF TimeLeq(on_t, off_t)
        THEN TimeLeq(on_t, now_t) /\ TimeLeq(now_t, off_t) /\ now_t # off_t
        ELSE TimeLeq(on_t, now_t) \/ TimeLeq(now_t, off_t)

\* is_in_schedule
is_in_schedule(now_dt, on_str, off_str) ==
    LET on_t  == parse_time(on_str)
        off_t == parse_time(off_str)
        now_t == TimeOfDay(now_dt)
    IN  IF TimeLeq(on_t, off_t)
        THEN TimeLeq(on_t, now_t) /\ TimeLeq(now_t, off_t)
        ELSE TimeLeq(on_t, now_t) \/ TimeLeq(now_t, off_t)

----------------------------------------------------------------------------
(* The two tables *)

\* the row migrate_db inserts: (1, 'AUTO', NULL)
DefaultControlRow == [manual_target |-> "AUTO", pause_end_time |-> NULL]

\* UPDATE pump_control SET pause_end_time = t WHERE id = 1
SetPause(pc, t) ==
    IF pc = <<>> THEN pc ELSE <<[pc[1] EXCEPT !.pause_end_time = t]>>

\* the mode UPDATE without `pause_end_time = NULL`
SetTargetKeepingPause(pc, target) ==
    IF pc = <<>> THEN pc ELSE <<[pc[1] EXCEPT !.manual_target = target]>>

\* UPDATE pump_control SET manual_target = target, pause_end_time = NULL WHERE id = 1
SetTarget(pc, target) ==
    IF pc = <<>> THEN pc
    ELSE <<[manual_target |-> target, pause_end_time |-> NULL]>>

\* SELECT on_time, off_time FROM pump_schedules
\*   WHERE is_active = TRUE ORDER BY id DESC LIMIT 1       (fetchone)
ActiveSchedule(ps) ==
    LET ids == { i \in 1..Len(ps) : ps[i].is_active }
    IN  IF ids = {} THEN NULL
        ELSE <<ps[CHOOSE i \in ids : \A j \in ids : j <= i]>>

----------------------------------------------------------------------------
(* calculate_pump_status *)

\* The statements that reach the database, in program order; `fault` names
\* the one that raises (0: none does).
Q_SELECT_CONTROL == "select_control"

Q_CLEAR_PAUSE == "clear_pause"

Q_REFRESH_CONTROL == "refresh_control"

Q_SELECT_SCHEDULE == "select_schedule"

FaultOf(q) ==
    CASE q = Q_SELECT_CONTROL  -> 1
      [] q = Q_CLEAR_PAUSE     -> 2
      [] q = Q_REFRESH_CONTROL -> 3
      [] q = Q_SELECT_SCHEDULE -> 4

Result(status, pc, queries, failed) ==
    [status |-> status, pump_control |-> pc, queries |-> queries, failed |-> failed]

\* the handler of `except Exception`, answering ON
OnExceptionFailOpen(pc, queries) == Result("ON", pc, queries, TRUE)

\* except Exception: log, close the cursor, return "OFF"
OnException(pc, queries) == Result("OFF", pc, queries, TRUE)

\* PRIORITY 3: the schedule (AUTO mode)
CheckSchedule(pc, ps, now_dt, fault, queries) ==
    LET q == Append(queries, Q_SELECT_SCHEDULE)
    IN  IF fault = FaultOf(Q_SELECT_SCHEDULE) THEN OnException(pc, q)
        ELSE LET schedule == ActiveSchedule(ps)
             IN  IF /\ schedule # NULL
                    /\ is_in_schedule(now_dt, schedule[1].on_time, schedule[1].off_time)
                 THEN Result("ON", pc, q, FALSE)
                 ELSE Result("OFF", pc, q, FALSE)

\* the manual branch answering by the schedule when the target is ON
CheckManualTargetScheduleFirst(control, pc, ps, now_dt, fault, queries) ==
    CASE control.manual_target = "OFF" -> Result("OFF", pc, queries, FALSE)
      [] control.manual_target \in {"AUTO", "ON"} -> CheckSchedule(pc, ps, now_dt, fault, queries)
      [] OTHER -> Result("OFF", pc, queries, FALSE)

\* the manual branch with the schedule as its else: any value that is not
\* ON or OFF is treated as AUTO
CheckManualTargetElseSchedule(control, pc, ps, now_dt, fault, queries) ==
    CASE control.manual_target = "ON"   -> Result("ON", pc, queries, FALSE)
      [] control.manual_target = "OFF"  -> Result("OFF", pc, queries, FALSE)
      [] OTHER -> CheckSchedule(pc, ps, now_dt, fault, queries)

\* PRIORITY 2: manual_target, then PRIORITY 3, then the final return "OFF"
CheckManualTarget(control, pc, ps, now_dt, fault, queries) ==
    CASE control.manual_target = "ON"   -> Result("ON", pc, queries, FALSE)
      [] control.manual_target = "OFF"  -> Result("OFF", pc, queries, FALSE)
      [] control.manual_target = "AUTO" -> CheckSchedule(pc, ps, now_dt, fault, queries)
      [] OTHER -> Result("OFF", pc, queries, FALSE)

\* the expired-pause branch with its UPDATE left out: the pause stays stored
ClearExpiredPauseNotWritten(pc, ps, now_dt, fault, queries) ==
    LET q1 == Append(queries, Q_CLEAR_PAUSE)
        q2 == Append(q1, Q_REFRESH_CONTROL)
    IN  CheckManualTarget(pc[1], pc, ps, now_dt, fault, q2)

\* the expiry branch resetting manual_target along with the pause
ClearExpiredPauseResettingMode(pc, ps, now_dt, fault, queries) ==
    LET q1 == Append(queries, Q_CLEAR_PAUSE)
        cleared == SetTarget(pc, "AUTO")
        q2 == Append(q1, Q_REFRESH_CONTROL)
    IN  IF fault = FaultOf(Q_CLEAR_PAUSE) THEN OnException(pc, q1)
        ELSE IF fault = FaultOf(Q_REFRESH_CONTROL) THEN OnException(cleared, q2)
        ELSE CheckManualTarget(cleared[1], cleared, ps, now_dt, fault, q2)

\* the else branch of `now_dt < pause_dt`: clear the expired pause, read the
\* row again and go on with it
ClearExpiredPause(pc, ps, now_dt, fault, queries) ==
    LET q1 == Append(queries, Q_CLEAR_PAUSE)
        cleared == SetPause(pc, NULL)
        q2 == Append(q1, Q_REFRESH_CONTROL)
    IN  IF fault = FaultOf(Q_CLEAR_PAUSE) THEN OnException(pc, q1)
        ELSE IF fault = FaultOf(Q_REFRESH_CONTROL) THEN OnException(cleared, q2)
        ELSE CheckManualTarget(cleared[1], cleared, ps, now_dt, fault, q2)

\* PRIORITY 1 comparing with <= : a pause still forces OFF at its end time
CheckPauseInclusive(control, pc, ps, now_dt, fault, queries) ==
    IF control.pause_end_time # NULL
    THEN IF now_dt <= control.pause_end_time[1]
         THEN Result("OFF", pc, queries, FALSE)
         ELSE ClearExpiredPause(pc, ps, now_dt, fault, queries)
    ELSE CheckManualTarget(control, pc, ps, now_dt, fault, queries)

\* PRIORITY 1 with the pause test dropped: the pause is ignored while active
CheckPauseIgnored(control, pc, ps, now_dt, fault, queries) ==
    IF control.pause_end_time # NULL /\ now_dt >= control.pause_end_time[1]
    THEN ClearExpiredPause(pc, ps, now_dt, fault, queries)
    ELSE CheckManualTarget(control, pc, ps, now_dt, fault, queries)

\* PRIORITY 1: the pause
CheckPause(control, pc, ps, now_dt, fault, queries) ==
    IF control.pause_end_time # NULL
    THEN IF now_dt < control.pause_end_time[1]
         THEN Result("OFF", pc, queries, FALSE)
         ELSE ClearExpiredPause(pc, ps, now_dt, fault, queries)
    ELSE CheckManualTarget(control, pc, ps, now_dt, fault, queries)

\* calculate_pump_status(db, now_dt) on tables pc, ps: the status returned,
\* pump_control as the call leaves it, the statements it executed, and
\* whether one of them raised
calculate_pump_status(pc, ps, now_dt, fault) ==
    LET q == <<Q_SELECT_CONTROL>>
    IN  IF fault = FaultOf(Q_SELECT_CONTROL) THEN OnException(pc, q)
        ELSE IF pc = <<>> THEN Result("OFF", pc, q, FALSE)
        ELSE CheckPause(pc[1], pc, ps, now_dt, fault, q)

----------------------------------------------------------------------------
(* Requests *)

\* ControlUpdate.action values a request may carry
ActionInputs == {"PAUSE", "pause", "MANUAL_ON", "MANUAL_OFF", "AUTO", "STOP"}

\* ControlUpdate.minutes values a PAUSE request may carry (NULL: the field is
\* absent); the other requests carry none
MinutesInputs == {NULL, <<0>>, <<360>>, <<-360>>}

MinutesFor(raw_action) ==
    IF raw_action = "PAUSE" THEN MinutesInputs ELSE {NULL}

\* ScheduleData (on_time, off_time) pairs a request may carry: a same-day
\* window ("07:00:00", "19:00:00"), an overnight window ("19:00:00", "07:00"),
\* and two with a string that parse_time cannot parse ("24:00:00" and "7")
ScheduleInputs == { << <<7, 0, 0>>,  <<19, 0, 0>> >>,
                    << <<19, 0, 0>>, <<7, 0>> >>,
                    << <<24, 0, 0>>, <<19, 0, 0>> >>,
                    << <<7, 0, 0>>,  <<7>> >> }

\* str.upper() on the action strings above
Upper(s) ==
    CASE s = "pause" -> "PAUSE"
      [] OTHER       -> s

\* the statements a call that never reached calculate_pump_status executed
NoCalc == Result("", <<>>, <<>>, FALSE)

\* the statement q is among those a call executed
Executed(queries, q) == \E i \in 1..Len(queries) : queries[i] = q

\* the record of one request: what it carried, the pump_control table when
\* the handler started (before) and when it called calculate_pump_status
\* (seen), the pause intent standing at that moment (pending), the result of
\* calculate_pump_status (calc), the response, and whether the request
\* before it was a resolution at the same instant that cleared a pause
CallRecord(op, http, now, action, minutes, pause_until, before, seen, pending, resolved, calc, reported, after_clear) ==
    [op |-> op, http |-> http, now |-> now, action |-> action, minutes |-> minutes,
     pause_until |-> pause_until, before |-> before, seen |-> seen,
     pending |-> pending, resolved |-> resolved, calc |-> calc, reported |-> reported,
     after_clear |-> after_clear]

Call(op, http, now, action, minutes, pause_until, before, seen, pending, resolved, calc, reported) ==
    CallRecord(op, http, now, action, minutes, pause_until, before, seen, pending,
               resolved, calc, reported,
               call.resolved /\ call.now = now /\ Executed(call.calc.queries, Q_CLEAR_PAUSE))

\* no request is being answered
Idle == CallRecord("idle", 0, 0, "", NULL, NULL, <<>>, <<>>, NULL, FALSE, NoCalc, NULL, FALSE)

\* the pause intent after a resolution at `now`: it is consumed by the first
\* resolution at or after its end time
AfterResolution(pending, now) ==
    IF pending # NULL /\ now >= pending[1].until THEN NULL ELSE pending

----------------------------------------------------------------------------
(* Handlers *)

\* POST /api/sensor/save
save_sensor(fault) ==
    LET now == get_local_time
        r   == calculate_pump_status(pump_control, pump_schedules, now, fault)
    IN  /\ pump_control' = r.pump_control
        /\ intent' = AfterResolution(intent, now)
        /\ call' = Call("save_sensor", 200, now, "", NULL, NULL, pump_control,
                        pump_control, intent, TRUE, r, NULL)
        /\ UNCHANGED <<pump_schedules, utcnow, inflight>>

\* minutes = update.minutes or 30
MinutesOrDefault(minutes) ==
    IF minutes = NULL \/ minutes[1] = 0 THEN DEFAULT_PAUSE_MINUTES ELSE minutes[1]

\* the PAUSE branch of update_control: the table after its UPDATE
PauseUpdate(pc, now, minutes) ==
    SetPause(pc, <<now + MinutesOrDefault(minutes) * SecondsPerMinute>>)

\* the table after the UPDATE of a recognized action
ControlUpdated(pc, action, now, minutes) ==
    CASE action = "PAUSE"      -> PauseUpdate(pc, now, minutes)
      [] action = "MANUAL_ON"  -> SetTarget(pc, "ON")
      [] action = "MANUAL_OFF" -> SetTarget(pc, "OFF")
      [] action = "AUTO"       -> SetTarget(pc, "AUTO")

\* the else branch answering like a recognized action that did nothing
InvalidActionSilentDefault(raw_action, minutes, now) ==
    LET r == calculate_pump_status(pump_control, pump_schedules, now, 0)
    IN  /\ pump_control' = r.pump_control
        /\ intent' = AfterResolution(intent, now)
        /\ call' = Call("update_control", 200, now, raw_action, minutes,
                        NULL, pump_control, pump_control, intent, TRUE, r, NULL)
        /\ UNCHANGED <<pump_schedules, utcnow, inflight>>

\* else: raise HTTPException(status_code = 400, detail = "Invalid action")
InvalidAction(raw_action, minutes, now) ==
    /\ call' = Call("update_control", 400, now, raw_action, minutes,
                    NULL, pump_control, pump_control, intent, FALSE, NoCalc, NULL)
    /\ UNCHANGED <<pump_control, pump_schedules, utcnow, intent, inflight>>

\* POST /api/control/update
update_control(raw_action, minutes, fault) ==
    LET action == Upper(raw_action)
        now    == get_local_time
    IN  IF action \in {"PAUSE", "MANUAL_ON", "MANUAL_OFF", "AUTO"}
        THEN LET updated == ControlUpdated(pump_control, action, now, minutes)
                 until   == IF action = "PAUSE"
                            THEN <<now + MinutesOrDefault(minutes) * SecondsPerMinute>>
                            ELSE NULL
                 pending == IF action = "PAUSE"
                            THEN IF pump_control = <<>> THEN NULL
                                 ELSE <<[mode  |-> pump_control[1].manual_target,
                                         until |-> until[1]]>>
                            ELSE NULL
                 r == calculate_pump_status(updated, pump_schedules, now, fault)
             IN  /\ pump_control' = r.pump_control
                 /\ intent' = AfterResolution(pending, now)
                 /\ call' = Call("update_control", 200, now, raw_action, minutes,
                                 until, pump_control, updated, pending, TRUE, r, NULL)
                 /\ UNCHANGED <<pump_schedules, utcnow, inflight>>
        ELSE InvalidAction(raw_action, minutes, now)

\* UPDATE pump_schedules SET is_active = FALSE
Deactivated(ps) == [i \in 1..Len(ps) |-> [ps[i] EXCEPT !.is_active = FALSE]]

\* POST /api/schedule/add
add_schedule(on_time, off_time) ==
    /\ Len(pump_schedules) < MaxRows
    /\ pump_schedules' = Append(Deactivated(pump_schedules),
                                [on_time |-> on_time, off_time |-> off_time,
                                 is_active |-> TRUE])
    /\ pump_control' = SetTarget(pump_control, "AUTO")
    /\ intent' = NULL
    /\ call' = Call("add_schedule", 200, get_local_time, "", NULL, NULL, pump_control,
                    pump_control, NULL, FALSE, NoCalc, NULL)
    /\ UNCHANGED <<utcnow, inflight>>

\* delete_schedule without its UPDATE of pump_control
DeleteScheduleKeepingControl ==
    /\ pump_schedules' = <<>>
    /\ call' = Call("delete_schedule", 200, get_local_time, "", NULL, NULL, pump_control,
                    pump_control, NULL, FALSE, NoCalc, NULL)
    /\ UNCHANGED <<pump_control, utcnow, intent, inflight>>

\* DELETE /api/schedule/delete
delete_schedule ==
    /\ pump_schedules' = <<>>
    /\ pump_control' = SetTarget(pump_control, "AUTO")
    /\ intent' = NULL
    /\ call' = Call("delete_schedule", 200, get_local_time, "", NULL, NULL, pump_control,
                    pump_control, NULL, FALSE, NoCalc, NULL)
    /\ UNCHANGED <<utcnow, inflight>>

\* GET /api/control/status: the row is read, then calculate_pump_status runs,
\* then the response is built from the row read first
get_control_status(fault) ==
    LET now == get_local_time
        control == pump_control
        r == calculate_pump_status(pump_control, pump_schedules, now, fault)
        reported == IF control = <<>>
                    THEN [manual_target |-> "AUTO", pause_end_time |-> NULL]
                    ELSE [manual_target |-> control[1].manual_target,
                          pause_end_time |-> control[1].pause_end_time]
    IN  /\ pump_control' = r.pump_control
        /\ intent' = AfterResolution(intent, now)
        /\ call' = Call("get_control_status", 200, now, "", NULL, NULL, pump_control,
                        pump_control, intent, TRUE, r, <<reported>>)
        /\ UNCHANGED <<pump_schedules, utcnow, inflight>>

\* the round comparing with > : a pause is left stored at its end time
AutoCheckStrictlyAfter ==
    LET now == get_local_time
        expired == /\ pump_control # <<>>
                   /\ pump_control[1].pause_end_time # NULL
                   /\ now > pump_control[1].pause_end_time[1]
    IN  /\ pump_control' = IF expired THEN SetPause(pump_control, NULL) ELSE pump_control
        /\ call' = Call("auto_check_pause_expiry", 0, now, "", NULL, NULL, pump_control,
                        pump_control, intent, FALSE, NoCalc, NULL)
        /\ UNCHANGED <<pump_schedules, utcnow, intent, inflight>>

\* one round of auto_check_pause_expiry after its sleep
auto_check_pause_expiry ==
    LET now == get_local_time
        expired == /\ pump_control # <<>>
                   /\ pump_control[1].pause_end_time # NULL
                   /\ now >= pump_control[1].pause_end_time[1]
    IN  /\ pump_control' = IF expired THEN SetPause(pump_control, NULL) ELSE pump_control
        /\ call' = Call("auto_check_pause_expiry", 0, now, "", NULL, NULL, pump_control,
                        pump_control, intent, FALSE, NoCalc, NULL)
        /\ UNCHANGED <<pump_schedules, utcnow, intent, inflight>>

\* the default-row step of migrate_db written as an unconditional REPLACE
MigratedControlReset(pc) == <<DefaultControlRow>>

\* migrate_db on pump_control: SELECT COUNT(*) ... WHERE id = 1, and the
\* INSERT of the default row when the count is 0
MigratedControl(pc) ==
    IF Len(pc) = 0 THEN Append(pc, DefaultControlRow) ELSE pc

\* migrate_db, run by lifespan at every start of the application
migrate_db ==
    /\ pump_control' = MigratedControl(pump_control)
    /\ call' = Call("migrate_db", 0, get_local_time, "", NULL, NULL, pump_control,
                    pump_control, intent, FALSE, NoCalc, NULL)
    /\ UNCHANGED <<pump_schedules, utcnow, intent, inflight>>

\* time passes between two requests
Tick ==
    /\ utcnow < MaxTick * TickSeconds
    /\ utcnow' = utcnow + TickSeconds
    /\ call' = Idle
    /\ UNCHANGED <<pump_control, pump_schedules, intent, inflight>>

----------------------------------------------------------------------------
(* The handlers statement by statement.  Every connection is opened with   *)
(* autocommit = True and no handler opens a transaction or takes a lock,   *)
(* so between two cursor.execute calls of a request served by one server   *)
(* process the statements of a request served by another process of the    *)
(* same application (uvicorn workers, overlapping deployments) can run     *)
(* against the same database.  inflight[w] is the request process w is     *)
(* serving: the statement it executes next (at), the `now` it took and the *)
(* control row it last read.                                               *)

Workers == {1, 2}

NoWork == [op |-> "idle", at |-> "idle", now |-> 0, action |-> "", control |-> <<>>]

\* no process is serving a request
NoRequests == [w \in Workers |-> NoWork]

\* the requests served statement by statement: <<handler, action>>
ConcInputs == { <<"add_schedule", "">>, <<"delete_schedule", "">>,
                <<"update_control", "PAUSE">>, <<"update_control", "MANUAL_ON">>,
                <<"save_sensor", "">>, <<"auto_check_pause_expiry", "">> }

\* the first statement of each handler
FirstStatement(op) ==
    CASE op = "add_schedule"            -> "deactivate"
      [] op = "delete_schedule"         -> "delete"
      [] op = "update_control"          -> "update"
      [] op = "save_sensor"             -> Q_SELECT_CONTROL
      [] op = "auto_check_pause_expiry" -> "select_pause"

\* the INSERTs of add_schedule still to come
PendingInserts ==
    Cardinality({ w \in Workers : inflight[w].at \in {"deactivate", "insert"} })

Goto(w, label) == [inflight EXCEPT ![w].at = label]

Return(w) == [inflight EXCEPT ![w] = NoWork]

\* process w takes a request (or its background task wakes up) and reads
\* the clock
Receive(w, op, action) ==
    /\ inflight[w].at = "idle"
    /\ op = "add_schedule" => Len(pump_schedules) + PendingInserts < MaxRows
    /\ inflight' = [inflight EXCEPT ![w] =
                      [op |-> op, at |-> FirstStatement(op), now |-> get_local_time,
                       action |-> action, control |-> <<>>]]
    /\ UNCHANGED <<pump_control, pump_schedules, utcnow, call, intent>>

\* add_schedule: UPDATE pump_schedules SET is_active = FALSE
StmtDeactivate(w) ==
    /\ inflight[w].at = "deactivate"
    /\ pump_schedules' = Deactivated(pump_schedules)
    /\ inflight' = Goto(w, "insert")
    /\ UNCHANGED <<pump_control, utcnow, call, intent>>

\* add_schedule: INSERT INTO pump_schedules ... VALUES (%s, %s, TRUE)
StmtInsert(w) ==
    /\ inflight[w].at = "insert"
    /\ pump_schedules' = Append(pump_schedules,
                                [on_time |-> <<7, 0, 0>>, off_time |-> <<19, 0, 0>>,
                                 is_active |-> TRUE])
    /\ inflight' = Goto(w, "reset_control")
    /\ UNCHANGED <<pump_control, utcnow, call, intent>>

\* delete_schedule: DELETE FROM pump_schedules
StmtDelete(w) ==
    /\ inflight[w].at = "delete"
    /\ pump_schedules' = <<>>
    /\ inflight' = Goto(w, "reset_control")
    /\ UNCHANGED <<pump_control, utcnow, call, intent>>

\* add_schedule, delete_schedule: UPDATE pump_control SET manual_target =
\* 'AUTO', pause_end_time = NULL, the last statement of both
StmtResetControl(w) ==
    /\ inflight[w].at = "reset_control"
    /\ pump_control' = SetTarget(pump_control, "AUTO")
    /\ inflight' = Return(w)
    /\ UNCHANGED <<pump_schedules, utcnow, call, intent>>

\* update_control: the UPDATE of its action (a PAUSE comes with minutes =
\* 360), then calculate_pump_status
StmtUpdate(w) ==
    /\ inflight[w].at = "update"
    /\ pump_control' = ControlUpdated(pump_control, inflight[w].action,
                                      inflight[w].now, <<360>>)
    /\ inflight' = Goto(w, Q_SELECT_CONTROL)
    /\ UNCHANGED <<pump_schedules, utcnow, call, intent>>

\* where calculate_pump_status goes with the row `control` once the pause
\* is out of the way: ON and OFF return, AUTO reads the schedule
AfterPause(control) ==
    IF control[1].manual_target = "AUTO" THEN Q_SELECT_SCHEDULE ELSE "idle"

\* calculate_pump_status: SELECT manual_target, pause_end_time ... and the
\* branch on the row read
StmtSelectControl(w) ==
    LET control == pump_control
        next == IF control = <<>> THEN "idle"
                ELSE IF control[1].pause_end_time # NULL
                     THEN IF inflight[w].now < control[1].pause_end_time[1]
                          THEN "idle"
                          ELSE Q_CLEAR_PAUSE
                     ELSE AfterPause(control)
    IN  /\ inflight[w].at = Q_SELECT_CONTROL
        /\ inflight' = IF next = "idle" THEN Return(w)
                       ELSE [inflight EXCEPT ![w].at = next, ![w].control = control]
        /\ UNCHANGED <<pump_control, pump_schedules, utcnow, call, intent>>

\* calculate_pump_status: UPDATE pump_control SET pause_end_time = NULL
\* WHERE id = 1
StmtClearPause(w) ==
    /\ inflight[w].at = Q_CLEAR_PAUSE
    /\ pump_control' = SetPause(pump_control, NULL)
    /\ inflight' = Goto(w, Q_REFRESH_CONTROL)
    /\ UNCHANGED <<pump_schedules, utcnow, call, intent>>

\* calculate_pump_status: the row is read again after the clear
StmtRefreshControl(w) ==
    LET control == pump_control
        next == IF control = <<>> THEN "idle" ELSE AfterPause(control)
    IN  /\ inflight[w].at = Q_REFRESH_CONTROL
        /\ inflight' = IF next = "idle" THEN Return(w)
                       ELSE [inflight EXCEPT ![w].at = next, ![w].control = control]
        /\ UNCHANGED <<pump_control, pump_schedules, utcnow, call, intent>>

\* calculate_pump_status: SELECT on_time, off_time ... WHERE is_active =
\* TRUE, and the return
StmtSelectSchedule(w) ==
    /\ inflight[w].at = Q_SELECT_SCHEDULE
    /\ inflight' = Return(w)
    /\ UNCHANGED <<pump_control, pump_schedules, utcnow, call, intent>>

\* auto_check_pause_expiry: SELECT pause_end_time FROM pump_control
StmtSelectPause(w) ==
    LET control == pump_control
        expired == /\ control # <<>>
                   /\ control[1].pause_end_time # NULL
                   /\ inflight[w].now >= control[1].pause_end_time[1]
    IN  /\ inflight[w].at = "select_pause"
        /\ inflight' = IF expired
                       THEN [inflight EXCEPT ![w].at = "sweep_clear", ![w].control = control]
                       ELSE Return(w)
        /\ UNCHANGED <<pump_control, pump_schedules, utcnow, call, intent>>

\* auto_check_pause_expiry: UPDATE pump_control SET pause_end_time = NULL
StmtSweepClear(w) ==
    /\ inflight[w].at = "sweep_clear"
    /\ pump_control' = SetPause(pump_control, NULL)
    /\ inflight' = Return(w)
    /\ UNCHANGED <<pump_schedules, utcnow, call, intent>>

----------------------------------------------------------------------------
(* Specifications *)

\* the state lifespan leaves: migrate_db has inserted the default row
Init ==
    /\ pump_control = <<DefaultControlRow>>
    /\ pump_schedules = <<>>
    /\ utcnow = 0
    /\ intent = NULL
    /\ call = Idle
    /\ inflight = NoRequests

\* every statement succeeds
Next ==
    \/ Tick
    \/ save_sensor(0)
    \/ \E a \in ActionInputs : \E m \in MinutesFor(a) : update_control(a, m, 0)
    \/ \E s \in ScheduleInputs : add_schedule(s[1], s[2])
    \/ delete_schedule
    \/ get_control_status(0)
    \/ auto_check_pause_expiry

Spec == Init /\ [][Next]_vars

\* migrate_db may have failed before inserting the row
InitFault ==
    /\ pump_control \in {<<>>, <<DefaultControlRow>>}
    /\ pump_schedules = <<>>
    /\ utcnow = 0
    /\ intent = NULL
    /\ call = Idle
    /\ inflight = NoRequests

\* any one statement of calculate_pump_status may raise
Faults == 0..4

\* the requests tried with faults: a pause of one clock step, the three
\* modes, and the same-day schedule
FaultActionInputs == {"PAUSE", "MANUAL_ON", "MANUAL_OFF", "AUTO"}

FaultMinutesFor(raw_action) ==
    IF raw_action = "PAUSE" THEN {<<360>>} ELSE {NULL}

FaultScheduleInputs == { << <<7, 0, 0>>,  <<19, 0, 0>> >> }

NextFault ==
    \/ Tick
    \/ \E f \in Faults : save_sensor(f)
    \/ \E a \in FaultActionInputs : \E m \in FaultMinutesFor(a), f \in Faults :
          update_control(a, m, f)
    \/ \E s \in FaultScheduleInputs : add_schedule(s[1], s[2])
    \/ delete_schedule
    \/ \E f \in Faults : get_control_status(f)
    \/ auto_check_pause_expiry

SpecFault == InitFault /\ [][NextFault]_vars

\* before the first start: no control row yet
InitLife ==
    /\ pump_control = <<>>
    /\ pump_schedules = <<>>
    /\ utcnow = 0
    /\ intent = NULL
    /\ call = Idle
    /\ inflight = NoRequests

\* the application is started (and restarted at any time); it serves
\* requests once migrate_db has run
Started == pump_control # <<>>

NextLife ==
    \/ migrate_db
    \/ Started /\ Tick
    \/ Started /\ save_sensor(0)
    \/ Started /\ \E a \in ActionInputs : \E m \in MinutesFor(a) : update_control(a, m, 0)
    \/ Started /\ \E s \in ScheduleInputs : add_schedule(s[1], s[2])
    \/ Started /\ delete_schedule
    \/ Started /\ get_control_status(0)
    \/ Started /\ auto_check_pause_expiry

SpecLife == InitLife /\ [][NextLife]_vars

\* manual_target values the handlers never write but the VARCHAR(20) NULL
\* column can hold (a row left by an earlier revision or another client):
\* "None" stands for Python None read from SQL NULL, which like the others
\* equals none of 'ON', 'OFF', 'AUTO'
UnexpectedTargets == {"None", "MANUAL_ON", "on"}

\* a control row found at start, kept by migrate_db as it is, and a schedule
InitLegacy ==
    /\ pump_control \in { <<[manual_target |-> t, pause_end_time |-> NULL]>> :
                            t \in UnexpectedTargets \cup {"AUTO", "ON", "OFF"} }
    /\ pump_schedules \in { <<>>,
                            <<[on_time |-> <<7, 0, 0>>, off_time |-> <<19, 0, 0>>,
                               is_active |-> TRUE]>> }
    /\ utcnow = 0
    /\ intent = NULL
    /\ call = Idle
    /\ inflight = NoRequests

\* resolutions, pauses and sweeps; no request that rewrites manual_target
NextLegacy ==
    \/ Tick
    \/ save_sensor(0)
    \/ \E m \in MinutesInputs : update_control("PAUSE", m, 0)
    \/ get_control_status(0)
    \/ auto_check_pause_expiry

SpecLegacy == InitLegacy /\ [][NextLegacy]_vars

\* the minutes of a PAUSE request whose pause is still stored when the
\* request has been answered
StoredPauseMinutes == { m \in MinutesInputs : MinutesOrDefault(m) > 0 }

\* the control row at some instant with any mode, without a pause or just
\* after a PAUSE request stored one
InitSweep ==
    /\ utcnow \in { k * TickSeconds : k \in 0..MaxTick }
    /\ \E t \in {"AUTO", "ON", "OFF"} :
          pump_control \in
              {SetTarget(<<DefaultControlRow>>, t)} \cup
              { PauseUpdate(SetTarget(<<DefaultControlRow>>, t), get_local_time, m) :
                  m \in StoredPauseMinutes }
    /\ pump_schedules = <<>>
    /\ intent = NULL
    /\ call = Idle
    /\ inflight = NoRequests

\* time passes and the background task runs; no request arrives
NextSweep ==
    \/ Tick
    \/ auto_check_pause_expiry

\* `while True` with every exception caught: after each sleep of 10 seconds
\* another round runs
SpecSweep == InitSweep /\ [][NextSweep]_vars /\ WF_vars(auto_check_pause_expiry)

\* two server processes on one database, each statement a step
NextConc ==
    \/ Tick
    \/ \E w \in Workers : \E r \in ConcInputs : Receive(w, r[1], r[2])
    \/ \E w \in Workers : StmtDeactivate(w)
    \/ \E w \in Workers : StmtInsert(w)
    \/ \E w \in Workers : StmtDelete(w)
    \/ \E w \in Workers : StmtResetControl(w)
    \/ \E w \in Workers : StmtUpdate(w)
    \/ \E w \in Workers : StmtSelectControl(w)
    \/ \E w \in Workers : StmtClearPause(w)
    \/ \E w \in Workers : StmtRefreshControl(w)
    \/ \E w \in Workers : StmtSelectSchedule(w)
    \/ \E w \in Workers : StmtSelectPause(w)
    \/ \E w \in Workers : StmtSweepClear(w)

SpecConc == Init /\ [][NextConc]_vars

\* the schedule times tried against the window matcher: "07:00:00",
\* "19:00:00", "13:00", "12:59:59" and "13:00:01"
WindowTimes == { <<7, 0, 0>>, <<19, 0, 0>>, <<13, 0>>, <<12, 59, 59>>, <<13, 0, 1>> }

\* AUTO mode with no pause, schedules replaced at will
NextWindow ==
    \/ Tick
    \/ save_sensor(0)
    \/ \E on_time \in WindowTimes, off_time \in WindowTimes : add_schedule(on_time, off_time)
    \/ delete_schedule

SpecWindow == Init /\ [][NextWindow]_vars

----------------------------------------------------------------------------
(* Vocabulary of the properties *)

\* the last request ran calculate_pump_status on an existing control row
Resolved == call.resolved /\ call.seen # <<>>

\* the row calculate_pump_status read first
SeenRow == call.seen[1]

\* that row held a pause ending after / at or before the call's now
SeenPauseActive ==
    Resolved /\ SeenRow.pause_end_time # NULL /\ call.now < SeenRow.pause_end_time[1]

SeenPauseExpired ==
    Resolved /\ SeenRow.pause_end_time # NULL /\ call.now >= SeenRow.pause_end_time[1]

\* the rows of pump_schedules with is_active = TRUE
ActiveIds == { i \in 1..Len(pump_schedules) : pump_schedules[i].is_active }

\* the single active schedule (when there is one)
TheSchedule == pump_schedules[CHOOSE i \in ActiveIds : TRUE]

\* a well-formed time-of-day string, and its second of the day
WellFormed(time_str) ==
    /\ Len(time_str) \in {2, 3}
    /\ time_str[1] \in 0..23
    /\ \A i \in 2..Len(time_str) : time_str[i] \in 0..59

SecondOfDay(time_str) ==
    time_str[1] * 3600 + time_str[2] * 60 + (IF Len(time_str) = 3 THEN time_str[3] ELSE 0)

\* the window of the specification, on seconds of the day
InWindow(now_s, on_s, off_s) ==
    \/ on_s <= off_s /\ on_s <= now_s /\ now_s <= off_s
    \/ on_s > off_s /\ (now_s >= on_s \/ now_s <= off_s)

NowInWindow(row) ==
    InWindow(call.now % 86400, SecondOfDay(row.on_time), SecondOfDay(row.off_time))

RecognizedActions == {"PAUSE", "MANUAL_ON", "MANUAL_OFF", "AUTO"}

----------------------------------------------------------------------------
(* Properties *)

\* C1 - pause priority: a call of calculate_pump_status that reads a pause
\* ending after now returns OFF, whatever the mode and the schedule, and
\* executes nothing but the read of the control row.
C1_PausePriority ==
    SeenPauseActive =>
        /\ call.calc.status = "OFF"
        /\ call.calc.queries = <<Q_SELECT_CONTROL>>

\* C1 happens: an active pause forced OFF while the mode was manual ON
C1_Witness ==
    /\ SeenPauseActive
    /\ SeenRow.manual_target = "ON"
    /\ call.calc.status = "OFF"

\* C2 - pause-expiry clearing: when calculate_pump_status reads a pause with
\* now >= pauseEndTime (equality included), the stored pauseEndTime is null
\* when the call has returned.
C2_ExpiredPauseCleared ==
    SeenPauseExpired =>
        /\ pump_control # <<>>
        /\ pump_control[1].pause_end_time = NULL

\* C2 happens: a call at exactly the pause's end time cleared it
C2_Witness ==
    /\ SeenPauseExpired
    /\ call.now = SeenRow.pause_end_time[1]
    /\ pump_control[1].pause_end_time = NULL

\* C3 - prior intent resumes: with a PAUSE issued under mode M and no other
\* control or schedule request since, the first resolution at
\* now >= pauseEndTime returns what mode M yields without a pause (ON for
\* manual ON, OFF for manual OFF, the schedule's answer for AUTO), and the
\* stored mode is still M.
C3_PriorIntentResumes ==
    (Resolved /\ call.pending # NULL /\ call.now >= call.pending[1].until) =>
        LET M == call.pending[1].mode
        IN  /\ M = "ON" => call.calc.status = "ON"
            /\ M = "OFF" => call.calc.status = "OFF"
            /\ M = "AUTO" =>
                 call.calc.status =
                    calculate_pump_status(<<DefaultControlRow>>, pump_schedules,
                                          call.now, 0).status
            /\ pump_control[1].manual_target = M

\* C3 happens: a pause issued under manual ON expired and the call that
\* cleared it answered ON
C3_Witness ==
    /\ SeenPauseExpired
    /\ call.op = "save_sensor"
    /\ call.pending # NULL
    /\ call.pending[1].mode = "ON"
    /\ call.calc.status = "ON"

\* C4 - manual override: with no pause active, manual ON returns ON and
\* manual OFF returns OFF at every now and for every schedule state, and the
\* schedule is not read.
C4_ManualOverride ==
    (Resolved /\ ~SeenPauseActive /\ SeenRow.manual_target \in {"ON", "OFF"}) =>
        /\ call.calc.status = SeenRow.manual_target
        /\ \A i \in 1..Len(call.calc.queries) : call.calc.queries[i] # Q_SELECT_SCHEDULE

\* C4 happens: manual ON answered ON outside the active schedule's window
C4_Witness ==
    /\ Resolved /\ ~SeenPauseActive
    /\ SeenRow.manual_target = "ON"
    /\ ActiveIds # {}
    /\ WellFormed(TheSchedule.on_time) /\ WellFormed(TheSchedule.off_time)
    /\ ~NowInWindow(TheSchedule)
    /\ call.calc.status = "ON"

\* C5 - AUTO follows the schedule: in AUTO mode with no pause active the
\* call returns OFF when no schedule is active, and otherwise ON exactly
\* when now's time-of-day lies in the window of the active schedule (for a
\* schedule whose two times are well-formed time-of-day strings).
C5_AutoFollowsSchedule ==
    (Resolved /\ ~SeenPauseActive /\ SeenRow.manual_target = "AUTO") =>
        /\ ActiveIds = {} => call.calc.status = "OFF"
        /\ \A i \in ActiveIds :
             (WellFormed(pump_schedules[i].on_time) /\ WellFormed(pump_schedules[i].off_time))
                => (call.calc.status = "ON" <=> NowInWindow(pump_schedules[i]))

\* C5 happens: AUTO answered ON past midnight inside an overnight window
C5_Witness ==
    /\ Resolved /\ ~SeenPauseActive
    /\ SeenRow.manual_target = "AUTO"
    /\ ActiveIds # {}
    /\ WellFormed(TheSchedule.on_time) /\ WellFormed(TheSchedule.off_time)
    /\ SecondOfDay(TheSchedule.on_time) > SecondOfDay(TheSchedule.off_time)
    /\ call.now % 86400 < SecondOfDay(TheSchedule.off_time)
    /\ call.calc.status = "ON"

\* C6 - window matcher: for the time-of-day of now and the on and off times
\* of every stored schedule, is_in_schedule is true iff
\* (on <= off and on <= now <= off) or (on > off and (now >= on or now <= off)),
\* and the status of an AUTO resolution is ON exactly then.
C6_WindowMatcher ==
    /\ \A i \in 1..Len(pump_schedules) :
         LET row == pump_schedules[i]
         IN  is_in_schedule(get_local_time, row.on_time, row.off_time)
               <=> InWindow(get_local_time % 86400, SecondOfDay(row.on_time),
                            SecondOfDay(row.off_time))
    /\ (Resolved /\ ActiveIds # {}) =>
         (call.calc.status = "ON" <=> NowInWindow(TheSchedule))

\* C6 happens: on = off and now is that instant, answered ON
C6_Witness ==
    /\ Resolved /\ ActiveIds # {}
    /\ SecondOfDay(TheSchedule.on_time) = SecondOfDay(TheSchedule.off_time)
    /\ call.now % 86400 = SecondOfDay(TheSchedule.on_time)
    /\ call.calc.status = "ON"

\* C7 - fail-safe OFF: a call of calculate_pump_status that finds no control
\* row, or in which a read or write raises, returns OFF.
C7_FailSafeOff ==
    (call.resolved /\ (call.seen = <<>> \/ call.calc.failed)) =>
        call.calc.status = "OFF"

\* C7 happens: under manual ON with an expired pause, the read after the
\* clearing write raised and the call answered OFF
C7_Witness ==
    /\ SeenPauseExpired
    /\ SeenRow.manual_target = "ON"
    /\ call.calc.failed
    /\ call.calc.queries[Len(call.calc.queries)] = Q_REFRESH_CONTROL
    /\ call.calc.status = "OFF"

\* C8 - malformed schedule times fail safe: in AUTO mode with no pause
\* active, an active schedule whose on-time or off-time is malformed makes
\* the call return OFF at every now.
C8_MalformedScheduleOff ==
    (/\ Resolved /\ ~SeenPauseActive
     /\ SeenRow.manual_target = "AUTO"
     /\ ActiveIds # {}
     /\ ~(WellFormed(TheSchedule.on_time) /\ WellFormed(TheSchedule.off_time)))
        => call.calc.status = "OFF"

\* C9 as stated - every action string other than PAUSE, MANUAL_ON, MANUAL_OFF
\* and AUTO is answered with an error and leaves the control row as it was.
C9_AsStated ==
    (call.op = "update_control" /\ call.action \notin RecognizedActions) =>
        /\ call.http = 400
        /\ pump_control = call.before

\* C9 - invalid action rejected without effect: a request whose action,
\* upper-cased, is not one of PAUSE, MANUAL_ON, MANUAL_OFF and AUTO is
\* answered 400 and changes neither pump_control nor pump_schedules.
C9_InvalidActionRejected ==
    [][(call'.op = "update_control" /\ Upper(call'.action) \notin RecognizedActions)
         => /\ call'.http = 400
            /\ pump_control' = pump_control
            /\ pump_schedules' = pump_schedules]_vars

\* C9 happens: STOP was rejected and an expired pause stayed stored
C9_Witness ==
    /\ call.op = "update_control"
    /\ call.action = "STOP"
    /\ call.http = 400
    /\ pump_control = call.before
    /\ pump_control[1].pause_end_time # NULL
    /\ call.now >= pump_control[1].pause_end_time[1]

\* C10 - PAUSE(minutes) at time now stores pauseEndTime = now + minutes for
\* every integer minutes the request carries, and leaves the mode unchanged.
C10_PauseStoresNowPlusMinutes ==
    (/\ call.op = "update_control" /\ Upper(call.action) = "PAUSE"
     /\ call.minutes # NULL /\ call.before # <<>>)
        => /\ call.seen[1].pause_end_time = <<call.now + call.minutes[1] * 60>>
           /\ call.seen[1].manual_target = call.before[1].manual_target
           /\ pump_control[1].manual_target = call.before[1].manual_target

\* the mode a mode-setting action stores
TargetOf(action) ==
    CASE action = "MANUAL_ON"  -> "ON"
      [] action = "MANUAL_OFF" -> "OFF"
      [] action = "AUTO"       -> "AUTO"

\* C11 - mode-setting actions: after MANUAL_ON, MANUAL_OFF or AUTO the mode
\* is the corresponding value and pauseEndTime is null, whatever pause was
\* stored before; the one UPDATE of the request leaves the row so, and it is
\* still so when the request is answered.
C11_ModeSetting ==
    (/\ call.op = "update_control"
     /\ Upper(call.action) \in {"MANUAL_ON", "MANUAL_OFF", "AUTO"})
        => LET row == [manual_target |-> TargetOf(Upper(call.action)),
                       pause_end_time |-> NULL]
           IN  /\ call.seen = <<row>>
               /\ pump_control = <<row>>

\* C11 happens: MANUAL_ON replaced manual OFF under a pause still active
C11_Witness ==
    /\ call.op = "update_control"
    /\ call.action = "MANUAL_ON"
    /\ call.before[1].manual_target = "OFF"
    /\ call.before[1].pause_end_time # NULL
    /\ call.now < call.before[1].pause_end_time[1]
    /\ pump_control = <<[manual_target |-> "ON", pause_end_time |-> NULL]>>

\* C13 - schedule changes reset control: after add_schedule and after
\* delete_schedule the control row has mode AUTO and no pause, whatever
\* manual mode or pause was in force before.
C13_ScheduleChangeResetsControl ==
    call.op \in {"add_schedule", "delete_schedule"} =>
        pump_control = <<[manual_target |-> "AUTO", pause_end_time |-> NULL]>>

\* C13 happens: delete_schedule reset manual ON with a pause still active
C13_Witness ==
    /\ call.op = "delete_schedule"
    /\ call.before[1].manual_target = "ON"
    /\ call.before[1].pause_end_time # NULL
    /\ call.now < call.before[1].pause_end_time[1]
    /\ pump_control = <<[manual_target |-> "AUTO", pause_end_time |-> NULL]>>

\* C20 - a successful update_control reports the status that resolving the
\* control row left by its update gives; after a successful PAUSE, with any
\* accepted minutes, that status is OFF and the stored pause is still active
\* at the request's now.
C20_ReportsEffectiveStatus ==
    (call.op = "update_control" /\ call.http = 200) =>
        /\ call.calc.status =
              calculate_pump_status(call.seen, pump_schedules, call.now, 0).status
        /\ Upper(call.action) = "PAUSE" =>
              /\ call.calc.status = "OFF"
              /\ pump_control[1].pause_end_time # NULL
              /\ call.now < pump_control[1].pause_end_time[1]

\* C19 - control singleton lifecycle: initialization leaves exactly one
\* control row, created as (AUTO, no pause); no control update, schedule
\* add or delete, resolution or sweep removes or duplicates it; and running
\* initialization again leaves an existing row as it is.
C19_ControlSingleton ==
    [][/\ call'.op = "migrate_db" =>
            /\ Len(pump_control') = 1
            /\ pump_control = <<>> => pump_control' = <<DefaultControlRow>>
            /\ pump_control # <<>> => pump_control' = pump_control
       /\ Len(pump_control) = 1 => Len(pump_control') = 1]_vars

\* C19 happens: a restart found manual ON with a pause stored and kept it
C19_Witness ==
    /\ call.op = "migrate_db"
    /\ Len(call.before) = 1
    /\ call.before[1].manual_target = "ON"
    /\ call.before[1].pause_end_time # NULL
    /\ pump_control = call.before

\* C18 - safe default on unexpected mode: with no pause active and a stored
\* mode that is none of AUTO, ON, OFF (a null mode included), the call
\* returns OFF.
C18_UnexpectedModeOff ==
    (Resolved /\ ~SeenPauseActive /\ SeenRow.manual_target \notin {"AUTO", "ON", "OFF"})
        => call.calc.status = "OFF"

\* C18 happens: a null mode answered OFF inside the active schedule's
\* window, in the call that cleared an expired pause
C18_Witness ==
    /\ SeenPauseExpired
    /\ SeenRow.manual_target = "None"
    /\ ActiveIds # {}
    /\ NowInWindow(TheSchedule)
    /\ call.calc.status = "OFF"

\* the requests that only resolve: they write nothing before calling
\* calculate_pump_status
PureResolutions == {"save_sensor", "get_control_status"}

\* C16 - idempotence of resolution: a call of calculate_pump_status that
\* directly follows another one at the same now, with no control or schedule
\* change in between, returns the same status (also when the first call
\* cleared an expired pause) and writes nothing.
C16_Idempotent ==
    [][(/\ call.resolved
        /\ call'.resolved /\ call'.op \in PureResolutions
        /\ call'.now = call.now)
          => /\ call'.calc.status = call.calc.status
             /\ ~Executed(call'.calc.queries, Q_CLEAR_PAUSE)
             /\ pump_control' = pump_control]_vars

\* C16 happens: a resolution directly after one that cleared an expired
\* pause at the same now
C16_Witness ==
    /\ Resolved
    /\ call.op \in PureResolutions
    /\ call.after_clear
    /\ call.before[1].pause_end_time = NULL

\* a pause is stored
PauseStored == pump_control # <<>> /\ pump_control[1].pause_end_time # NULL

\* the stored pause has reached its end time
PauseDue == PauseStored /\ get_local_time >= pump_control[1].pause_end_time[1]

\* C17 - self-healing sweep: with no request arriving, a stored pause whose
\* end time has been reached is eventually cleared by the background task,
\* and no round of the task clears a pause whose end time is in the future.
C17_SweepClearsDuePause ==
    /\ PauseDue ~> (pump_control[1].pause_end_time = NULL)
    /\ [][(call'.op = "auto_check_pause_expiry" /\ PauseStored /\ ~PauseDue)
            => pump_control' = pump_control]_vars

\* C17 happens: a round of the task found a pause exactly at its end time
\* and cleared it
C17_Witness ==
    /\ call.op = "auto_check_pause_expiry"
    /\ call.before[1].pause_end_time = <<call.now>>
    /\ pump_control[1].pause_end_time = NULL

\* C12 - at most one schedule is active at a time, in every state reached by
\* any sequence or interleaving of add_schedule and delete_schedule requests.
C12_AtMostOneActive == Cardinality(ActiveIds) <= 1

\* process w executes a statement in this step
Executes(w, labels) == inflight[w].at \in labels /\ inflight'[w] # inflight[w]

\* the statements of calculate_pump_status and of the background task
ResolverStatements ==
    {Q_SELECT_CONTROL, Q_CLEAR_PAUSE, Q_REFRESH_CONTROL, Q_SELECT_SCHEDULE,
     "select_pause", "sweep_clear"}

\* their clearing UPDATEs
ClearStatements == {Q_CLEAR_PAUSE, "sweep_clear"}

\* C14 - fresh pause wins the clear race: the clear written by a resolution
\* or by the background task after it observed an expired pause never
\* removes a pause stored meanwhile whose end time is still ahead.
C14_FreshPauseWins ==
    [][\A w \in Workers :
          (Executes(w, ClearStatements) /\ PauseStored) => PauseDue]_vars

\* C15 - resolver frame: a statement of calculate_pump_status or of the
\* background task leaves the schedules and the mode as they are (a mode
\* written by another request since its read included), writes nothing
\* unless the pause it read was expired, and changes pause_end_time only by
\* clearing a pause that has expired.
C15_ResolverFrame ==
    [][\A w \in Workers : Executes(w, ResolverStatements) =>
          /\ pump_schedules' = pump_schedules
          /\ Len(pump_control') = Len(pump_control)
          /\ pump_control # <<>> =>
                pump_control'[1].manual_target = pump_control[1].manual_target
          /\ pump_control' # pump_control =>
                /\ inflight[w].at \in ClearStatements
                /\ inflight[w].control[1].pause_end_time # NULL
                /\ inflight[w].now >= inflight[w].control[1].pause_end_time[1]
                /\ pump_control'[1].pause_end_time = NULL
                /\ PauseDue]_vars

\* C21 - status query consistency: with no concurrent writer, the
\* manual_target and pause_end_time returned by get_control_status are those
\* of the stored control row when the call returns and the ones its
\* calculated_pump_status resolves from; pause_end_time is reported as null
\* whenever the same call cleared an expired pause.
C21_StatusQueryConsistent ==
    (call.op = "get_control_status" /\ Resolved) =>
        /\ call.reported[1].manual_target = pump_control[1].manual_target
        /\ call.reported[1].pause_end_time = pump_control[1].pause_end_time
        /\ call.calc.status =
             calculate_pump_status(<<call.reported[1]>>, pump_schedules, call.now, 0).status
        /\ Executed(call.calc.queries, Q_CLEAR_PAUSE) =>
             call.reported[1].pause_end_time = NULL

====
